---- MODULE Spec2Model ----
(***************************************************************************)
(* State-machine model of the strategies of mellow_sdk/strategies.py.      *)
(*                                                                         *)
(* A replay is a sequence of calls rebalance(record=..., portfolio=...)    *)
(* on one strategy object and one portfolio.  Each action below is one     *)
(* whole call of a strategy's rebalance, including every helper it calls.  *)
(* The driver of strategy/backtest.py is modelled too: one action is one   *)
(* pass of its loop over the rows of the data frame.                       *)
(*                                                                         *)
(* Representation                                                          *)
(*   - Python's None is the empty tuple << >>, a value v that may be None  *)
(*     is << v >>; a returned tag is a string, "None" for None.            *)
(*   - position names are strings, built as the f-strings build them.      *)
(*   - prices, amounts, liquidity and timestamps are integers: timestamps  *)
(*     in seconds, vault amounts in units of 1e-6, so that the top-up      *)
(*     epsilon 1e-6 is 1.                                                  *)
(*   - the positions, the portfolio and the liquidity aligner live in      *)
(*     mellow_sdk.positions / portfolio / uniswap_utils, which are not     *)
(*     among the sources; their operations are modelled from the           *)
(*     specification (sections 3, 4.1-4.3).                                *)
(***************************************************************************)
EXTENDS Integers, Sequences, FiniteSets, TLC

(***************************************************************************)
(* Bounds of the model                                                     *)
(***************************************************************************)
\* last timestamp a record may carry
MaxTime == 13
\* largest gap between two consecutive records
MaxDelta == 2
\* last timestamp of a record fed to UniV3Passive
MaxPassiveTime == 5
\* last timestamp of a record fed to StrategyByAddress
MaxFollowTime == 4
\* prices are drawn from 1..MaxPrice
MaxPrice == 3
\* the most rows of the data frame of a replay of Backtest
MaxRows == 3
\* the last day of the records of a replay of Hold
MaxHoldDay == 3

(***************************************************************************)
(* Program constants                                                       *)
(***************************************************************************)
\* the cap on re-mints, `if (self.w < 5)`
RemintCap == 5
\* the dust threshold of perform_clearing, `univ3.liquidity < 1e1`
DustThreshold == 10
\* the top-up epsilon 1e-6, in units of 1e-6
Epsilon == 1
\* 1.0001 ** MIN_TICK (about 2.9e-39) on the integer price grid
MinTickPrice == 0
\* 1.0001 ** MAX_TICK (about 3.4e38): above every price the model draws
MaxTickPrice == 1000000
\* the seconds of the calendar day that `timestamp.date()` cuts a timestamp to
SecondsPerDay == 86400

VARIABLES
    portfolio,                  \* Portfolio.positions: name -> position
    rec,                        \* the record of the last rebalance call
    tag,                        \* what the last rebalance call returned
    last_mint_price,            \* StrategyCatchThePrice.last_mint_price
    last_timestamp_in_interval, \* StrategyCatchThePrice.last_timestamp_in_interval
    pos_num,                    \* StrategyCatchThePrice.pos_num
    w,                          \* StrategyCatchThePrice.w, the re-mint counter
    create_pos_time,            \* StrategyCatchThePrice.create_pos_time
    width,                      \* StrategyCatchThePrice.width
    seconds_to_hold,            \* StrategyCatchThePrice.seconds_to_hold
    nRebalanceTags,             \* how many calls returned 'rebalance' so far
    lower_price,                \* UniV3Passive.lower_price
    upper_price,                \* UniV3Passive.upper_price
    printed,                    \* the lines the last rebalance call printed
    burn_left,                  \* the liquidity perform_burn left its position
    raised,                     \* the exception that ended the replay, "" if none
    fee_calls,                  \* position name -> calls of charge_fees in the last call
    prev_gain_date,             \* Hold.prev_gain_date
    gain_dates,                 \* the dates interest_gain was called with, in order
    strategy,                   \* Backtest.strategy, by its class name
    df,                         \* df_swaps.to_dicts(), the rows of one replay
    index,                      \* how many rows the loop of backtest has taken
    portfolio_history,          \* PortfolioHistory: one snapshot per add_snapshot
    rebalance_history,          \* RebalanceHistory: one <<timestamp, tag>> per add_snapshot
    uni_history,                \* UniPositionsHistory: one <<timestamp, positions>> per add_snapshot
    calls                       \* the rows rebalance was called with, in order

catchVars == <<last_mint_price, last_timestamp_in_interval, pos_num, w,
               create_pos_time, width, seconds_to_hold, nRebalanceTags>>
passiveVars == <<lower_price, upper_price>>
callVars == <<rec, tag, printed, burn_left, raised, fee_calls>>
holdVars == <<prev_gain_date, gain_dates>>
driverVars == <<strategy, df, index, portfolio_history, rebalance_history,
                uni_history, calls>>
vars == <<portfolio, callVars, catchVars, passiveVars, holdVars, driverVars>>

(***************************************************************************)
(* Python values                                                           *)
(***************************************************************************)
None == << >>
Some(v) == << v >>
Abs(n) == IF n < 0 THEN -n ELSE n
Max(a, b) == IF a >= b THEN a ELSE b
Min(a, b) == IF a <= b THEN a ELSE b

Digit(d) ==
    CASE d = 0 -> "0" [] d = 1 -> "1" [] d = 2 -> "2" [] d = 3 -> "3"
      [] d = 4 -> "4" [] d = 5 -> "5" [] d = 6 -> "6" [] d = 7 -> "7"
      [] d = 8 -> "8" [] d = 9 -> "9"

RECURSIVE NatToStr(_)
NatToStr(n) == IF n < 10 THEN Digit(n) ELSE NatToStr(n \div 10) \o Digit(n % 10)

\* str(n) of an int, as an f-string formats it
IntToStr(n) == IF n < 0 THEN "-" \o NatToStr(-n) ELSE NatToStr(n)

\* Python's `sub in s` on strings
Contains(s, sub) ==
    \E i \in 1..(Len(s) - Len(sub) + 1) : SubSeq(s, i, i + Len(sub) - 1) = sub

(***************************************************************************)
(* Portfolio and positions (modelled from the specification)               *)
(***************************************************************************)
EmptyPortfolio == [n \in {} |-> None]

\* no call of charge_fees on any position
NoCalls == [n \in {} |-> 0]

\* Hold.__init__
HoldNotStarted ==
    /\ prev_gain_date = None
    /\ gain_dates = << >>

\* a replay that calls rebalance itself, with no Backtest
NoDriver ==
    /\ strategy = ""
    /\ df = << >>
    /\ index = 0
    /\ portfolio_history = << >>
    /\ rebalance_history = << >>
    /\ uni_history = << >>
    /\ calls = << >>

\* Portfolio.append: the position is stored under its name
PortfolioAppend(pf, name, pos) ==
    [n \in (DOMAIN pf) \cup {name} |-> IF n = name THEN pos ELSE pf[n]]

\* Portfolio.remove
PortfolioRemove(pf, name) == [n \in (DOMAIN pf) \ {name} |-> pf[n]]

\* BiCurrencyPosition(name, swap_fee, gas_cost, x, y, ...)
BiCurrencyPosition(x, y) == [kind |-> "cash", x |-> x, y |-> y]

\* UniV3Position(name, lower_price, upper_price, fee_percent, gas_cost):
\* no liquidity and no fees yet
UniV3Position(lower, upper) ==
    [kind |-> "uni", lower_price |-> lower, upper_price |-> upper,
     liquidity |-> 0, fees_x |-> 0, fees_y |-> 0, x_hold |-> 0, y_hold |-> 0]

\* the share of a swapped amount that a position's liquidity earns, in units
\* of the fee rate
FeeShare(amount, liquidity, liquidity_total) ==
    IF liquidity_total = 0 THEN 0
    ELSE LET q == (Abs(amount) * liquidity) \div liquidity_total
         IN  IF amount < 0 THEN -q ELSE q

\* UniV3Position.charge_fees_share: the position earns its liquidity's share
\* of both amounts, but only while the price is in its range
ChargeFeesShare(pos, amount0, amount1, liquidity_total, inRange) ==
    IF inRange
    THEN [pos EXCEPT !.fees_x = @ + FeeShare(amount0, pos.liquidity, liquidity_total),
                     !.fees_y = @ + FeeShare(amount1, pos.liquidity, liquidity_total)]
    ELSE pos

\* the range test of charge_fees_share: [lower_price, upper_price)
InRange(pos, price) == pos.lower_price <= price /\ price < pos.upper_price

\* UniV3Position.deposit(x, y, price): the liquidity grows by liq, what the
\* aligner's amounts_to_liquidity makes of (x, y), and the cost basis by the
\* gross amounts
Deposit(pos, x, y, liq) ==
    [pos EXCEPT !.liquidity = @ + liq, !.x_hold = @ + x, !.y_hold = @ + y]

\* BiCurrencyPosition.deposit
CashDeposit(vault, dx, dy) == [vault EXCEPT !.x = @ + dx, !.y = @ + dy]

\* BiCurrencyPosition.withdraw, called with no more than the balances
CashWithdraw(vault, dx, dy) == [vault EXCEPT !.x = @ - dx, !.y = @ - dy]

\* UniV3Position.burn(liquidity, price): never below zero
Burn(pos, amount) ==
    [pos EXCEPT !.liquidity = IF amount > @ THEN 0 ELSE @ - amount]

\* UniV3Position.charge_fees(price_0, price_1): the position collects what
\* the price move earned it
ChargeFees(pos, earned) ==
    [pos EXCEPT !.fees_x = @ + earned[1], !.fees_y = @ + earned[2]]

(***************************************************************************)
(* Records                                                                 *)
(***************************************************************************)
Events == {"swap", "mint", "burn"}
Prices == 1..MaxPrice

\* what rec holds before the first call
NoRecord == [timestamp |-> 0, event |-> "-", price |-> 0,
             amount0 |-> 0, amount1 |-> 0, liquidity |-> 0,
             owner |-> "", tick_lower |-> 0, tick_upper |-> 0]

\* the records that may follow rec: one of the events at a later timestamp
\* and one of the prices, with amounts <<amount0, amount1>>, a liquidity, an owner and tick bounds
\* <<tick_lower, tick_upper>> from the given sets
RecordsAfter(events, gaps, prices, amounts, liquidities, owners, bounds) ==
    { [timestamp |-> rec.timestamp + d, event |-> e, price |-> p,
       amount0 |-> a[1], amount1 |-> a[2], liquidity |-> l,
       owner |-> o, tick_lower |-> b[1], tick_upper |-> b[2]] :
      d \in gaps, e \in events, p \in prices, a \in amounts,
      l \in liquidities, o \in owners, b \in bounds }

\* what the aligner makes of the capital put into a new position: the
\* amounts x, y deposited after the swap to the optimal ratio, which leaves
\* the vault nothing, and their liquidity.  Its formulas are real-valued.
AlignerOutcomes ==
    { [x |-> 1, y |-> 1, liquidity |-> 1], [x |-> 2, y |-> 0, liquidity |-> 2] }

(***************************************************************************)
(* StrategyCatchThePrice                                                   *)
(***************************************************************************)
\* what the strategy's constructor is given
Widths == {2}
Holds == {1}

\* a strategy that lets every event through
IsSwap_Always(event) == TRUE

\* `event != 'swap'` negated
IsSwap(event) == event = "swap"

\* a band that includes its edges
InBand_Closed(mint_price, price, wd) == Abs(mint_price - price) <= wd

\* `abs(self.last_mint_price - price) < self.width`
InBand(mint_price, price, wd) == Abs(mint_price - price) < wd

\* a hold time that is over as soon as it is reached
HeldTooLong_AtLeast(timestamp, last, hold) == timestamp - last >= hold

\* `(timestamp - self.last_timestamp_in_interval).total_seconds() > self.seconds_to_hold`
HeldTooLong(timestamp, last, hold) == timestamp - last > hold

\* a strategy without the cap
UnderCap_NoCap(count) == TRUE

\* `self.w < 5`
UnderCap(count) == count < RemintCap

\* a position that is always given the name of the first one
CatchPosName_First(num) == "UniV3_1"

\* f'UniV3_{self.pos_num}'
CatchPosName(num) == "UniV3_" \o IntToStr(num)

\* a lower bound that may fall below the least tick price
LowerBound_Unclamped(price, wd) == price - wd

\* `lower_price=max(1.0001 ** MIN_TICK, price - self.width)`
LowerBound(price, wd) == Max(MinTickPrice, price - wd)

\* `upper_price=min(1.0001 ** MAX_TICK, price + self.width)`
UpperBound(price, wd) == Min(MaxTickPrice, price + wd)

\* StrategyCatchThePrice.create_pos on portfolio pf: the next position number,
\* a new position around price holding what the aligner makes of the amounts
\* (out), and the mint price and both timestamps remembered
create_pos(pf, price, timestamp, out) ==
    LET num == IF pos_num = None THEN 1 ELSE pos_num[1] + 1
        uni_pos == UniV3Position(LowerBound(price, width), UpperBound(price, width))
    IN  /\ pos_num' = Some(num)
        /\ portfolio' = PortfolioAppend(pf, CatchPosName(num),
                                      Deposit(uni_pos, out.x, out.y, out.liquidity))
        /\ last_mint_price' = Some(price)
        /\ last_timestamp_in_interval' = Some(timestamp)
        /\ create_pos_time' = Some(timestamp)

\* StrategyCatchThePrice.rebalance(record=r, portfolio=portfolio)
CatchRebalance(r) ==
    /\ raised = ""
    /\ rec' = r
    /\ UNCHANGED <<width, seconds_to_hold, burn_left, fee_calls, passiveVars, holdVars>>
    /\ IF ~IsSwap(r.event)
       THEN /\ tag' = "None"
            /\ printed' = << >>
            /\ UNCHANGED <<portfolio, raised, last_mint_price,
                           last_timestamp_in_interval, pos_num, w,
                           create_pos_time, nRebalanceTags>>
       ELSE IF Cardinality(DOMAIN portfolio) = 0
       THEN /\ \E out \in AlignerOutcomes :
                   create_pos(PortfolioAppend(portfolio, "main_vault", BiCurrencyPosition(0, 0)),
                              r.price, r.timestamp, out)
            /\ tag' = "init"
            /\ printed' = <<"created 0">>
            /\ UNCHANGED <<raised, w, nRebalanceTags>>
       ELSE IF pos_num = None \/ CatchPosName(pos_num[1]) \notin DOMAIN portfolio
       THEN \* get_position finds nothing and the call on it fails
            /\ raised' = "AttributeError"
            /\ tag' = "-"
            /\ printed' = << >>
            /\ UNCHANGED <<portfolio, last_mint_price, last_timestamp_in_interval,
                           pos_num, w, create_pos_time, nRebalanceTags>>
       ELSE LET name == CatchPosName(pos_num[1])
                charged == [portfolio EXCEPT ![name] =
                               ChargeFeesShare(@, r.amount0, r.amount1, r.liquidity,
                                               InRange(@, r.price))]
            IN  IF InBand(last_mint_price[1], r.price, width)
                THEN /\ last_timestamp_in_interval' = Some(r.timestamp)
                     /\ portfolio' = charged
                     /\ tag' = "None"
                     /\ printed' = << >>
                     /\ UNCHANGED <<raised, last_mint_price, pos_num, w,
                                    create_pos_time, nRebalanceTags>>
                ELSE IF /\ HeldTooLong(r.timestamp, last_timestamp_in_interval[1],
                                       seconds_to_hold)
                        /\ UnderCap(w)
                THEN /\ w' = w + 1
                     /\ \E out \in AlignerOutcomes :
                            create_pos(PortfolioRemove(charged, name), r.price, r.timestamp, out)
                     /\ printed' = <<"Time: " \o IntToStr(r.timestamp - create_pos_time[1]),
                                     "created 0">>
                     /\ tag' = "rebalance"
                     /\ nRebalanceTags' = nRebalanceTags + 1
                     /\ UNCHANGED raised
                ELSE /\ portfolio' = charged
                     /\ tag' = "None"
                     /\ printed' = << >>
                     /\ UNCHANGED <<raised, last_mint_price, last_timestamp_in_interval,
                                    pos_num, w, create_pos_time, nRebalanceTags>>

\* the records a replay of StrategyCatchThePrice is fed: timestamps grow
CatchRecords ==
    RecordsAfter(Events, 1..MaxDelta, Prices, {<<2, -2>>}, {2}, {""}, {<<0, 0>>})

InitCatch ==
    /\ portfolio = EmptyPortfolio
    /\ rec = NoRecord
    /\ tag = "-"
    /\ raised = ""
    /\ printed = << >>
    /\ burn_left = None
    /\ fee_calls = NoCalls
    /\ lower_price = None
    /\ upper_price = None
    /\ last_mint_price = None
    /\ last_timestamp_in_interval = None
    /\ pos_num = None
    /\ w = 0
    /\ create_pos_time = None
    /\ width \in Widths
    /\ seconds_to_hold \in Holds
    /\ nRebalanceTags = 0
    /\ HoldNotStarted
    /\ NoDriver

NextCatch ==
    \E r \in CatchRecords :
        /\ r.timestamp <= MaxTime
        /\ CatchRebalance(r)
        /\ UNCHANGED driverVars

SpecCatch == InitCatch /\ [][NextCatch]_vars

(***************************************************************************)
(* Claims about StrategyCatchThePrice, checked under SpecCatch             *)
(***************************************************************************)
\* the names of the positions in the portfolio
Names(pf) == DOMAIN pf

\* the strategy has seen its first swap
Initialised == last_mint_price # None

\* the step is a call of rebalance with a swap record, after the first swap
LaterSwapStep == Initialised /\ rec'.event = "swap" /\ raised' = ""

\* C1: for every swap after the first, rebalance returns 'rebalance' exactly
\* when the price is at least width away from the last mint price, more than
\* seconds_to_hold seconds have passed since last_timestamp_in_interval, and
\* fewer than 5 re-mints were made.  Then the counter grows by one, the open
\* position is removed, and a new one is minted at the event's price and
\* timestamp.  Otherwise the tag is None and no position is created or removed.
C1_RemintIffOutLongUnderCap ==
    [][LaterSwapStep =>
        LET remint == /\ Abs(rec'.price - last_mint_price[1]) >= width
                      /\ rec'.timestamp - last_timestamp_in_interval[1] > seconds_to_hold
                      /\ w < 5
            old == "UniV3_" \o IntToStr(pos_num[1])
            new == "UniV3_" \o IntToStr(pos_num[1] + 1)
        IN  /\ (tag' = "rebalance") <=> remint
            /\ remint =>
                 /\ w' = w + 1
                 /\ Names(portfolio') = (Names(portfolio) \ {old}) \cup {new}
                 /\ old \notin Names(portfolio')
                 /\ portfolio'[new].liquidity > 0
                 /\ portfolio'[new].lower_price = Max(MinTickPrice, rec'.price - width)
                 /\ portfolio'[new].upper_price = Min(MaxTickPrice, rec'.price + width)
                 /\ last_mint_price' = <<rec'.price>>
                 /\ last_timestamp_in_interval' = <<rec'.timestamp>>
            /\ ~remint =>
                 /\ tag' = "None"
                 /\ Names(portfolio') = Names(portfolio)
                 /\ w' = w
    ]_vars

\* C1's case: the first re-mint has just been made
C1_Witness ==
    /\ tag = "rebalance"
    /\ w = 1
    /\ last_mint_price = <<rec.price>>
    /\ Names(portfolio) = {"main_vault", "UniV3_2"}

\* C2: 'rebalance' is returned at most 5 times, and once 5 re-mints were made
\* no later event creates or removes a position or changes last_mint_price.
C2_AtMostFiveRemints ==
    /\ [](nRebalanceTags <= 5)
    /\ [][nRebalanceTags = 5 =>
            /\ Names(portfolio') = Names(portfolio)
            /\ last_mint_price' = last_mint_price
            /\ nRebalanceTags' = 5]_vars

\* C2's case: after the fifth re-mint, a swap outside the band, held for more
\* than seconds_to_hold, has been processed
C2_Witness ==
    /\ nRebalanceTags = 5
    /\ rec.event = "swap"
    /\ tag = "None"
    /\ Abs(rec.price - last_mint_price[1]) >= width
    /\ rec.timestamp - last_timestamp_in_interval[1] > seconds_to_hold

\* C3: last_timestamp_in_interval changes only in a swap inside the band,
\* which sets it to the event's timestamp and does nothing else (tag None, no
\* position created or removed, counter unchanged), and in a mint or re-mint,
\* which sets it to the minting event's timestamp.  A swap outside the band
\* that triggers no re-mint leaves it unchanged.
C3_TimerChanges ==
    [][/\ (last_timestamp_in_interval' # last_timestamp_in_interval) =>
            /\ rec'.event = "swap"
            /\ last_timestamp_in_interval' = <<rec'.timestamp>>
            /\ \/ /\ Initialised
                  /\ Abs(rec'.price - last_mint_price[1]) < width
               \/ tag' \in {"init", "rebalance"}
       /\ (LaterSwapStep /\ Abs(rec'.price - last_mint_price[1]) < width) =>
            /\ last_timestamp_in_interval' = <<rec'.timestamp>>
            /\ tag' = "None"
            /\ Names(portfolio') = Names(portfolio)
            /\ w' = w
            /\ pos_num' = pos_num
            /\ last_mint_price' = last_mint_price
       /\ (tag' \in {"init", "rebalance"}) =>
            /\ last_timestamp_in_interval' = <<rec'.timestamp>>
       /\ (/\ LaterSwapStep
           /\ Abs(rec'.price - last_mint_price[1]) >= width
           /\ tag' # "rebalance") =>
            /\ last_timestamp_in_interval' = last_timestamp_in_interval
    ]_vars

\* C3's case: a swap inside the band has reset the timer of a position that
\* was minted earlier
C3_Witness ==
    /\ rec.event = "swap"
    /\ tag = "None"
    /\ last_timestamp_in_interval = <<rec.timestamp>>
    /\ create_pos_time # last_timestamp_in_interval

\* C4: a mint or burn record, before or after the first swap, returns None
\* and leaves the portfolio and the strategy's own state unchanged.
C4_NonSwapIgnored ==
    [][rec'.event \in {"mint", "burn"} =>
        /\ tag' = "None"
        /\ portfolio' = portfolio
        /\ UNCHANGED <<last_mint_price, last_timestamp_in_interval, pos_num, w,
                       create_pos_time, width, seconds_to_hold>>
    ]_vars

\* C4's case: a mint record has been processed after the first swap, while
\* the price has been out of the band for longer than seconds_to_hold
C4_Witness ==
    /\ rec.event = "mint"
    /\ tag = "None"
    /\ Initialised
    /\ Abs(rec.price - last_mint_price[1]) >= width
    /\ rec.timestamp - last_timestamp_in_interval[1] > seconds_to_hold
    /\ w < 5

(***************************************************************************)
(* UniV3Passive                                                            *)
(***************************************************************************)
\* the <<lower_price, upper_price>> the strategy's constructor is given
PassiveRanges == {<<0, MaxPrice + 1>>, <<1, 2>>}

\* a strategy that mints on every event
PassiveMustMint_Always(pf) == TRUE

\* `len(portfolio.positions) == 0`
PassiveMustMint(pf) == Cardinality(DOMAIN pf) = 0

\* UniV3Passive.create_uni_position: the vault, and the position holding
\* what the aligner makes (out) of the capital 1 / price and 1; the swap to
\* the optimal ratio leaves the vault nothing
create_uni_position(pf, price, out) ==
    LET uni_pos == UniV3Position(lower_price[1], upper_price[1])
    IN  PortfolioAppend(PortfolioAppend(pf, "main_vault", BiCurrencyPosition(0, 0)),
                        "UniV3Passive", Deposit(uni_pos, out.x, out.y, out.liquidity))

\* UniV3Passive.rebalance(record=r, portfolio=portfolio).  charge_fees_share
\* is called with neither tick nor price, so its range test (inRange) is not
\* decided by anything the strategy passes.
PassiveRebalance(r) ==
    /\ raised = ""
    /\ rec' = r
    /\ \E inRange \in BOOLEAN,
          created \in IF PassiveMustMint(portfolio)
                      THEN {create_uni_position(portfolio, r.price, out) :
                              out \in AlignerOutcomes}
                      ELSE {portfolio} :
         LET minted == PassiveMustMint(portfolio)
             charged == IF "UniV3Passive" \in DOMAIN created
                        THEN [created EXCEPT !["UniV3Passive"] =
                                ChargeFeesShare(@, r.amount0, r.amount1, r.liquidity, inRange)]
                        ELSE created
         IN  /\ portfolio' = charged
             /\ tag' = IF minted THEN "mint" ELSE "None"
    /\ printed' = << >>
    /\ UNCHANGED <<raised, burn_left, fee_calls, catchVars, passiveVars, holdVars>>

\* the records a replay of UniV3Passive is fed: a swap takes one token and
\* gives the other, a mint or burn moves both the same way
PassiveRecords ==
    RecordsAfter({"swap"}, {1}, Prices, {<<2, -2>>, <<-2, 2>>}, {2, 4}, {""}, {<<0, 0>>})
    \cup
    RecordsAfter({"mint", "burn"}, {1}, Prices, {<<2, 2>>}, {2, 4}, {""}, {<<-1, 1>>})

InitPassive ==
    /\ portfolio = EmptyPortfolio
    /\ rec = NoRecord
    /\ tag = "-"
    /\ raised = ""
    /\ printed = << >>
    /\ burn_left = None
    /\ fee_calls = NoCalls
    /\ \E range \in PassiveRanges :
         /\ lower_price = Some(range[1])
         /\ upper_price = Some(range[2])
    /\ last_mint_price = None
    /\ last_timestamp_in_interval = None
    /\ pos_num = None
    /\ w = 0
    /\ create_pos_time = None
    /\ width = 0
    /\ seconds_to_hold = 0
    /\ nRebalanceTags = 0
    /\ HoldNotStarted
    /\ NoDriver

NextPassive ==
    \E r \in PassiveRecords :
        /\ r.timestamp <= MaxPassiveTime
        /\ PassiveRebalance(r)
        /\ UNCHANGED driverVars

SpecPassive == InitPassive /\ [][NextPassive]_vars

(***************************************************************************)
(* Claims about UniV3Passive, checked under SpecPassive                    *)
(***************************************************************************)
\* C5: from an empty portfolio, rebalance returns 'mint' on the first event
\* and None on every later one; after the first event the portfolio holds
\* exactly the cash position 'main_vault' and the concentrated position
\* 'UniV3Passive', and no later event adds, removes or re-mints a position.
C5_MintsOnceOnly ==
    /\ [](rec # NoRecord =>
            /\ Names(portfolio) = {"main_vault", "UniV3Passive"}
            /\ portfolio["main_vault"].kind = "cash"
            /\ portfolio["UniV3Passive"].kind = "uni")
    /\ [][/\ rec = NoRecord => tag' = "mint"
          /\ rec # NoRecord =>
               /\ tag' = "None"
               /\ Names(portfolio') = Names(portfolio)
               /\ portfolio'["main_vault"] = portfolio["main_vault"]
               /\ portfolio'["UniV3Passive"].liquidity = portfolio["UniV3Passive"].liquidity
               /\ portfolio'["UniV3Passive"].x_hold = portfolio["UniV3Passive"].x_hold
               /\ portfolio'["UniV3Passive"].y_hold = portfolio["UniV3Passive"].y_hold
               /\ portfolio'["UniV3Passive"].lower_price = portfolio["UniV3Passive"].lower_price
               /\ portfolio'["UniV3Passive"].upper_price = portfolio["UniV3Passive"].upper_price
      ]_vars

\* C5's case: a later event has been processed after the mint
C5_Witness ==
    /\ rec.timestamp > 1
    /\ tag = "None"
    /\ Names(portfolio) = {"main_vault", "UniV3Passive"}
    /\ portfolio["UniV3Passive"].liquidity > 0

\* C6: once the position is minted, a mint or burn record leaves the
\* position's accumulated fees unchanged.
C6_FeesOnlyOnSwaps ==
    [][(rec # NoRecord /\ rec'.event \in {"mint", "burn"}) =>
         /\ portfolio'["UniV3Passive"].fees_x = portfolio["UniV3Passive"].fees_x
         /\ portfolio'["UniV3Passive"].fees_y = portfolio["UniV3Passive"].fees_y
    ]_vars

(***************************************************************************)
(* StrategyByAddress                                                       *)
(***************************************************************************)
\* self.address, and the owners a record may name
Address == "A"
Owners == {"A", "B"}

\* the <<tick_lower, tick_upper>> of mint and burn records
TickBounds == {<<-1, 1>>, <<-1, 11>>}

\* the liquidity of mint and burn records
Liquidities == {0, 5, 10, 15}

\* what charge_fees may earn a position in one swap, as <<fees_x, fees_y>>
FeesEarned == {<<0, 0>>, <<1, 2>>}

\* a strategy that follows every address
IsTracked_Anyone(owner) == TRUE

\* `record["owner"] == self.address`
IsTracked(owner) == owner = Address

\* a name that leaves out the upper tick
FollowPosName_LowerOnly(tick_lower, tick_upper) == "UniV3_" \o IntToStr(tick_lower)

\* f"UniV3_{tick_lower}_{tick_upper}"
FollowPosName(tick_lower, tick_upper) ==
    "UniV3_" \o IntToStr(tick_lower) \o "_" \o IntToStr(tick_upper)

\* StrategyByAddress._tick_to_price: the real number 1.0001 ** tick, kept as
\* its exponent
TickToPrice(tick) == [pow |-> tick]

\* a vault that is never topped up with token x
TopUpX_Never(vault, amount) == vault

\* the vault after `if vault.x < amount_0: vault.deposit(amount_0 - vault.x + 1e-6, 0)`
TopUpX(vault, amount) ==
    IF vault.x < amount THEN CashDeposit(vault, amount - vault.x + Epsilon, 0) ELSE vault

\* the vault after `if vault.y < amount_1: vault.deposit(0, amount_1 - vault.y + 1e-6)`
TopUpY(vault, amount) ==
    IF vault.y < amount THEN CashDeposit(vault, 0, amount - vault.y + Epsilon) ELSE vault

\* StrategyByAddress.perform_swap, on a portfolio with a vault
perform_swap(pf, amount_0, amount_1) ==
    LET vault == pf["Vault"]
    IN  [pf EXCEPT !["Vault"] =
            IF amount_0 > 0
            THEN CashDeposit(CashWithdraw(TopUpX(vault, amount_0), amount_0, 0),
                             0, -amount_1)
            ELSE CashDeposit(CashWithdraw(TopUpY(vault, amount_1), 0, amount_1),
                             -amount_0, 0)]

\* StrategyByAddress.perform_mint, on a portfolio with a vault
perform_mint(pf, amount_0, amount_1, tick_lower, tick_upper, liquidity) ==
    LET name == FollowPosName(tick_lower, tick_upper)
        vault == CashWithdraw(TopUpY(TopUpX(pf["Vault"], amount_0), amount_1),
                              amount_0, amount_1)
        paid == [pf EXCEPT !["Vault"] = vault]
    IN  IF name \in DOMAIN paid
        THEN [paid EXCEPT ![name] =
                [@ EXCEPT !.liquidity = @ + liquidity,
                          !.x_hold = @ + amount_0,
                          !.y_hold = @ + amount_1]]
        ELSE PortfolioAppend(paid, name,
                [UniV3Position(TickToPrice(tick_lower), TickToPrice(tick_upper))
                    EXCEPT !.liquidity = liquidity,
                           !.x_hold = @ + amount_0,
                           !.y_hold = @ + amount_1])

\* a burn of everything the position holds, whatever was requested
BurnAmount_All(requested, held) == held

\* the liquidity perform_burn burns: the request, or all the position holds
\* if the request is larger
BurnAmount(requested, held) == IF requested > held THEN held ELSE requested

\* a burn that pays the vault before it looks for the position
perform_burn_PaidFirst(pf, amount_0, amount_1, tick_lower, tick_upper, liquidity) ==
    LET name == FollowPosName(tick_lower, tick_upper)
        paid == IF "Vault" \in DOMAIN pf
                THEN [pf EXCEPT !["Vault"] = CashDeposit(@, amount_0, amount_1)]
                ELSE pf
    IN  IF name \in DOMAIN pf
        THEN [pf |-> [paid EXCEPT ![name] = Burn(@, BurnAmount(liquidity, @.liquidity))],
              printed |-> << >>,
              found |-> Some(name)]
        ELSE [pf |-> paid,
              printed |-> <<"There is no position to burn " \o name>>,
              found |-> None]

\* StrategyByAddress.perform_burn, on a portfolio with a vault if it has the
\* position: the portfolio, the lines printed and the name of the position
\* found
perform_burn(pf, amount_0, amount_1, tick_lower, tick_upper, liquidity) ==
    LET name == FollowPosName(tick_lower, tick_upper)
    IN  IF name \in DOMAIN pf
        THEN LET held == pf[name].liquidity
                 paid == [pf EXCEPT !["Vault"] = CashDeposit(@, amount_0, amount_1)]
             IN  IF liquidity > 0
                 THEN [pf |-> [paid EXCEPT ![name] =
                                  Burn(@, BurnAmount(liquidity, held))],
                       printed |-> IF liquidity > held
                                   THEN <<"Diff = " \o IntToStr(liquidity - held)>>
                                   ELSE << >>,
                       found |-> Some(name)]
                 ELSE [pf |-> paid,
                       printed |-> <<"Negative liq " \o IntToStr(liquidity)>>,
                       found |-> Some(name)]
        ELSE [pf |-> pf,
              printed |-> <<"There is no position to burn " \o name>>,
              found |-> None]

\* a clearing that keeps everything that has any liquidity
IsDust_Empty(liquidity) == liquidity <= 0

\* `univ3.liquidity < 1e1`
IsDust(liquidity) == liquidity < DustThreshold

\* StrategyByAddress.perform_clearing
perform_clearing(pf) ==
    LET kept == {n \in DOMAIN pf : ~(Contains(n, "UniV3") /\ IsDust(pf[n].liquidity))}
    IN  [n \in kept |-> pf[n]]

\* a fee loop that runs only on the swaps of the tracked address
ChargesFees_TrackedOnly(event, owner) == event = "swap" /\ owner = Address

\* `if record["event"] == "swap":` before the fee loop: any swap, whoever
\* its owner is
ChargesFees(event, owner) == event = "swap"

\* the positions that the loop over portfolio.positions charges
Charged(pf) == {n \in DOMAIN pf : Contains(n, "Uni")}

\* the exception of a call on the vault that get_position did not find
NoVault(pf) == "Vault" \notin DOMAIN pf

\* StrategyByAddress.rebalance(record=r, portfolio=portfolio)
FollowRebalance(r) ==
    /\ raised = ""
    /\ rec' = r
    /\ UNCHANGED <<catchVars, passiveVars, holdVars>>
    /\ LET tracked == IsTracked(r.owner)
           name == FollowPosName(r.tick_lower, r.tick_upper)
           fails == /\ tracked
                    /\ NoVault(portfolio)
                    /\ \/ r.event \in {"mint", "swap"}
                       \/ r.event = "burn" /\ name \in DOMAIN portfolio
       IN  IF fails
           THEN /\ raised' = "AttributeError"
                /\ tag' = "-"
                /\ printed' = << >>
                /\ fee_calls' = NoCalls
                /\ UNCHANGED <<portfolio, burn_left>>
           ELSE LET minted == IF r.event = "mint" /\ tracked
                              THEN perform_mint(portfolio, r.amount0, r.amount1,
                                                r.tick_lower, r.tick_upper, r.liquidity)
                              ELSE portfolio
                    burn == IF r.event = "burn" /\ tracked
                            THEN perform_burn(minted, r.amount0, r.amount1,
                                              r.tick_lower, r.tick_upper, r.liquidity)
                            ELSE [pf |-> minted, printed |-> << >>, found |-> None]
                    swapped == IF r.event = "swap" /\ tracked
                               THEN perform_swap(burn.pf, r.amount0, r.amount1)
                               ELSE burn.pf
                IN  /\ \E earned \in [Charged(swapped) -> FeesEarned] :
                         portfolio' = perform_clearing(
                            IF ChargesFees(r.event, r.owner)
                            THEN [n \in DOMAIN swapped |->
                                    IF n \in Charged(swapped)
                                    THEN ChargeFees(swapped[n], earned[n])
                                    ELSE swapped[n]]
                            ELSE swapped)
                    /\ fee_calls' = IF ChargesFees(r.event, r.owner)
                                    THEN [n \in Charged(swapped) |-> 1]
                                    ELSE NoCalls
                    /\ tag' = IF tracked THEN r.event ELSE "None"
                    /\ printed' = burn.printed
                    /\ burn_left' = IF burn.found = None
                                    THEN None
                                    ELSE Some(burn.pf[burn.found[1]].liquidity)
                    /\ UNCHANGED raised

\* the records a replay of StrategyByAddress is fed: a swap takes one token
\* and gives the other and carries the pool's liquidity; a mint or burn moves
\* both tokens the same way
FollowRecords ==
    RecordsAfter({"swap"}, {1}, {1}, {<<2, -3>>, <<-2, 3>>}, {20}, Owners, {<<0, 0>>})
    \cup
    RecordsAfter({"mint", "burn"}, {1}, {1}, {<<2, 3>>}, Liquidities, Owners,
                 TickBounds)

\* the portfolio the replay starts from: the driver's empty one, or one that
\* holds the vault
InitFollow ==
    /\ portfolio \in {EmptyPortfolio,
                      PortfolioAppend(EmptyPortfolio, "Vault", BiCurrencyPosition(3, 1))}
    /\ rec = NoRecord
    /\ tag = "-"
    /\ raised = ""
    /\ printed = << >>
    /\ burn_left = None
    /\ fee_calls = NoCalls
    /\ lower_price = None
    /\ upper_price = None
    /\ last_mint_price = None
    /\ last_timestamp_in_interval = None
    /\ pos_num = None
    /\ w = 0
    /\ create_pos_time = None
    /\ width = 0
    /\ seconds_to_hold = 0
    /\ nRebalanceTags = 0
    /\ HoldNotStarted
    /\ NoDriver

NextFollow ==
    \E r \in FollowRecords :
        /\ r.timestamp <= MaxFollowTime
        /\ FollowRebalance(r)
        /\ UNCHANGED driverVars

SpecFollow == InitFollow /\ [][NextFollow]_vars

(***************************************************************************)
(* Hold                                                                    *)
(***************************************************************************)
\* `timestamp.date()` of a timestamp in seconds
Date(timestamp) == timestamp \div SecondsPerDay

\* BiCurrencyPosition(x=.., y=.., x_interest=.., y_interest=..)
BiCurrencyPositionWithInterest(x, y, x_interest, y_interest) ==
    [kind |-> "cash", x |-> x, y |-> y,
     x_interest |-> x_interest, y_interest |-> y_interest]

\* BiCurrencyPosition.interest_gain(date)
InterestGain(vault, date) ==
    [vault EXCEPT !.x = @ * (1 + vault.x_interest),
                  !.y = @ * (1 + vault.y_interest)]

\* a vault created under the name that StrategyCatchThePrice gives its own
HoldVaultName_Main == "main_vault"

\* the `name="Vault"` that Hold creates its position with
HoldVaultName == "Vault"

\* an accrual on every event that is not of an earlier date
IsLaterDate_OrSame(date, prev) == date >= prev

\* `timestamp.date() > self.prev_gain_date`
IsLaterDate(date, prev) == date > prev

\* Hold.rebalance(record=r, portfolio=portfolio)
HoldRebalance(r) ==
    /\ raised = ""
    /\ rec' = r
    /\ UNCHANGED <<burn_left, fee_calls, catchVars, passiveVars>>
    /\ printed' = << >>
    /\ LET date == Date(r.timestamp)
           first == prev_gain_date = None
           started == IF first THEN Some(date) ELSE prev_gain_date
           created == IF first
                      THEN PortfolioAppend(portfolio, HoldVaultName,
                                BiCurrencyPositionWithInterest(1, 1, 0, 0))
                      ELSE portfolio
           gains == IsLaterDate(date, started[1])
       IN  IF gains /\ "Vault" \notin DOMAIN created
           THEN /\ raised' = "AttributeError"
                /\ tag' = "-"
                /\ portfolio' = created
                /\ prev_gain_date' = started
                /\ UNCHANGED gain_dates
           ELSE /\ portfolio' = IF gains
                                THEN [created EXCEPT !["Vault"] = InterestGain(@, date)]
                                ELSE created
                /\ prev_gain_date' = IF gains THEN Some(date) ELSE started
                /\ gain_dates' = IF gains THEN Append(gain_dates, date) ELSE gain_dates
                /\ tag' = "None"
                /\ UNCHANGED raised

\* the timestamps of the records a replay of Hold is fed: the first, the
\* second and the last second of each day
HoldTimes == {d * SecondsPerDay + s : d \in 0..MaxHoldDay, s \in {0, 1, SecondsPerDay - 1}}

\* the records a replay of Hold is fed, in any order of their timestamps
HoldRecords ==
    {[NoRecord EXCEPT !.timestamp = t, !.event = e, !.price = 1] :
        t \in HoldTimes, e \in Events}

InitHold ==
    /\ portfolio = EmptyPortfolio
    /\ rec = NoRecord
    /\ tag = "-"
    /\ raised = ""
    /\ printed = << >>
    /\ burn_left = None
    /\ fee_calls = NoCalls
    /\ lower_price = None
    /\ upper_price = None
    /\ last_mint_price = None
    /\ last_timestamp_in_interval = None
    /\ pos_num = None
    /\ w = 0
    /\ create_pos_time = None
    /\ width = 0
    /\ seconds_to_hold = 0
    /\ nRebalanceTags = 0
    /\ HoldNotStarted
    /\ NoDriver

NextHold ==
    \E r \in HoldRecords :
        /\ HoldRebalance(r)
        /\ UNCHANGED driverVars

SpecHold == InitHold /\ [][NextHold]_vars

(***************************************************************************)
(* Backtest                                                                *)
(***************************************************************************)
\* the classes of strategies.py
Strategies == {"Hold", "UniV3Passive", "StrategyByAddress", "StrategyCatchThePrice"}

\* the keyword that every rebalance of strategies.py reads the record from:
\* `kwargs["record"]`
RecordKey == "record"

\* the keyword arguments of the call of rebalance in Backtest.backtest:
\* `timestamp=record['timestamp'], row=record, prev_data=None,
\* portfolio=self.portfolio`
DriverKwargs(row) ==
    [timestamp |-> row.timestamp, row |-> row, prev_data |-> None,
     portfolio |-> "self.portfolio"]

\* a strategy of strategy/strategies.py, the module that backtest.py takes
\* its AbstractStrategy from
DriverStrategy == "AbstractStrategy"

\* the keyword a strategy reads the record from: the one that the call of
\* Backtest.backtest passes for a strategy of its own package, 'record' for
\* the strategies of mellow_sdk/strategies.py
KeyRead(s) == IF s = DriverStrategy THEN "row" ELSE RecordKey

\* the concentrated positions a strategy of strategy/strategies.py may open
OpenedNames == {"UniV3_1", "UniV3_2"}

\* rebalance of a strategy of strategy/strategies.py: it may open one
\* position or close one, and returns a tag if it did
AbstractRebalance(r) ==
    /\ raised = ""
    /\ rec' = r
    /\ printed' = << >>
    /\ UNCHANGED <<raised, burn_left, fee_calls, catchVars, passiveVars, holdVars>>
    /\ \E pf \in {portfolio} \cup
                  {IF n \in DOMAIN portfolio
                   THEN PortfolioRemove(portfolio, n)
                   ELSE PortfolioAppend(portfolio, n,
                            UniV3Position(LowerBound(r.price, 1), UpperBound(r.price, 1))) :
                     n \in OpenedNames} :
         /\ portfolio' = pf
         /\ tag' = IF pf = portfolio THEN "None" ELSE "rebalance"

\* a row as the strategies read it: its price, not null, as a number
AsRecord(row) == [row EXCEPT !.price = @[1]]

\* self.strategy.rebalance(record=r, portfolio=self.portfolio), by the class
\* of the strategy
StrategyRebalance(r) ==
    CASE strategy = "Hold" -> HoldRebalance(r)
      [] strategy = "UniV3Passive" -> PassiveRebalance(r)
      [] strategy = "StrategyByAddress" -> FollowRebalance(r)
      [] strategy = "StrategyCatchThePrice" -> CatchRebalance(r)
      [] strategy = DriverStrategy -> AbstractRebalance(r)

\* Portfolio.snapshot(timestamp, price)
PortfolioSnapshot(pf, timestamp, price) ==
    [timestamp |-> timestamp, price |-> price, positions |-> pf]

\* an entry that is the dict of the portfolio itself, not a copy of it
CopyOfPositions_SameDict(pf) == [same_dict |-> TRUE, names |-> {}]

\* copy.copy(self.portfolio.positions): a new dict with the names that the
\* dict of the portfolio has now
CopyOfPositions(pf) == [same_dict |-> FALSE, names |-> DOMAIN pf]

\* one pass of the loop `for record in df_swaps.to_dicts()`
BacktestStep ==
    /\ raised = ""
    /\ index < Len(df)
    /\ index' = index + 1
    /\ UNCHANGED <<strategy, df>>
    /\ LET row == df[index + 1]
           kwargs == DriverKwargs(row)
       IN  IF row.price = None
           THEN UNCHANGED <<portfolio, callVars, catchVars, passiveVars, holdVars,
                            portfolio_history, rebalance_history, uni_history, calls>>
           ELSE /\ calls' = Append(calls, row)
                /\ IF KeyRead(strategy) \notin DOMAIN kwargs
                   THEN /\ raised' = "KeyError"
                        /\ tag' = "-"
                        /\ UNCHANGED <<portfolio, rec, printed, burn_left, fee_calls,
                                       catchVars, passiveVars, holdVars,
                                       portfolio_history, rebalance_history,
                                       uni_history>>
                   ELSE /\ StrategyRebalance(AsRecord(kwargs[KeyRead(strategy)]))
                        /\ IF raised' # ""
                           THEN UNCHANGED <<portfolio_history, rebalance_history,
                                            uni_history>>
                           ELSE /\ portfolio_history' =
                                     Append(portfolio_history,
                                            PortfolioSnapshot(portfolio', row.timestamp,
                                                              row.price[1]))
                                /\ rebalance_history' =
                                     Append(rebalance_history, <<row.timestamp, tag'>>)
                                /\ uni_history' =
                                     Append(uni_history,
                                            <<row.timestamp, CopyOfPositions(portfolio')>>)

\* df_swaps.to_dicts(): up to MaxRows swaps in the order of their timestamps,
\* each with a price or with none
Dfs ==
    UNION {{[i \in 1..n |->
                [NoRecord EXCEPT !.timestamp = i, !.event = "swap", !.price = prices[i],
                                 !.amount0 = 2, !.amount1 = -2, !.liquidity = 2,
                                 !.owner = Address]] :
              prices \in [1..n -> {None} \cup {Some(p) : p \in Prices}]} :
           n \in 0..MaxRows}

\* Backtest(strategy) with a strategy just constructed and no portfolio given
InitBacktest ==
    /\ strategy \in Strategies \cup {DriverStrategy}
    /\ df \in Dfs
    /\ index = 0
    /\ portfolio_history = << >>
    /\ rebalance_history = << >>
    /\ uni_history = << >>
    /\ calls = << >>
    /\ portfolio = EmptyPortfolio
    /\ rec = NoRecord
    /\ tag = "-"
    /\ raised = ""
    /\ printed = << >>
    /\ burn_left = None
    /\ fee_calls = NoCalls
    /\ IF strategy = "UniV3Passive"
       THEN \E range \in PassiveRanges :
                /\ lower_price = Some(range[1])
                /\ upper_price = Some(range[2])
       ELSE lower_price = None /\ upper_price = None
    /\ last_mint_price = None
    /\ last_timestamp_in_interval = None
    /\ pos_num = None
    /\ w = 0
    /\ create_pos_time = None
    /\ IF strategy = "StrategyCatchThePrice"
       THEN width \in Widths /\ seconds_to_hold \in Holds
       ELSE width = 0 /\ seconds_to_hold = 0
    /\ nRebalanceTags = 0
    /\ HoldNotStarted

NextBacktest == BacktestStep

SpecBacktest == InitBacktest /\ [][NextBacktest]_vars

(***************************************************************************)
(* Claims about StrategyByAddress, checked under SpecFollow                *)
(***************************************************************************)
\* the name 'UniV3_<tick_lower>_<tick_upper>' of each of the tick bounds
NameOfBounds(tick_lower, tick_upper) ==
    CASE tick_lower = -1 /\ tick_upper = 1 -> "UniV3_-1_1"
      [] tick_lower = -1 /\ tick_upper = 11 -> "UniV3_-1_11"
      [] OTHER -> "?"

\* the concentrated positions of a portfolio
UniNames(pf) == {n \in Names(pf) : pf[n].kind = "uni"}

\* C7: a mint or burn event whose owner is not the tracked address returns
\* None and leaves the whole portfolio unchanged: the same positions with the
\* same liquidity, and the same vault balances.
C7_OthersEventsIgnored ==
    [][(rec'.event \in {"mint", "burn"} /\ rec'.owner # "A") =>
         /\ tag' = "None"
         /\ raised' = ""
         /\ portfolio' = portfolio
    ]_vars

\* C7's case: another address has minted at the bounds of a position that the
\* portfolio holds
C7_Witness ==
    /\ rec.event = "mint"
    /\ rec.owner = "B"
    /\ rec.liquidity = 15
    /\ tag = "None"
    /\ NameOfBounds(rec.tick_lower, rec.tick_upper) \in Names(portfolio)
    /\ portfolio[NameOfBounds(rec.tick_lower, rec.tick_upper)].liquidity = 10

\* C8: with the 'Vault' in the portfolio, a mint of the tracked address with
\* liquidity L >= 10 returns 'mint' and leaves the position named
\* 'UniV3_<tick_lower>_<tick_upper>' with liquidity L if there was none of
\* that name, and with L more than before if there was; every position with
\* other bounds keeps its liquidity, and no other position appears.
C8_MintCreatesOrMerges ==
    [][(/\ rec'.event = "mint"
        /\ rec'.owner = "A"
        /\ "Vault" \in Names(portfolio)
        /\ rec'.liquidity >= 10) =>
         LET name == NameOfBounds(rec'.tick_lower, rec'.tick_upper)
             before == IF name \in Names(portfolio) THEN portfolio[name].liquidity ELSE 0
         IN  /\ tag' = "mint"
             /\ Names(portfolio') = Names(portfolio) \cup {name}
             /\ portfolio'[name].kind = "uni"
             /\ portfolio'[name].liquidity = before + rec'.liquidity
             /\ \A other \in UniNames(portfolio) \ {name} :
                    portfolio'[other].liquidity = portfolio[other].liquidity
    ]_vars

\* C8's case: a second mint at the same bounds has been merged into the
\* position while a position with other bounds is open
C8_Witness ==
    /\ rec.event = "mint"
    /\ rec.owner = "A"
    /\ tag = "mint"
    /\ rec.tick_lower = -1
    /\ rec.tick_upper = 1
    /\ Names(portfolio) = {"Vault", "UniV3_-1_1", "UniV3_-1_11"}
    /\ portfolio["UniV3_-1_1"].liquidity = 20
    /\ portfolio["UniV3_-1_11"].liquidity = 15

\* C9: after every call of rebalance, no position whose name contains 'UniV3'
\* is left in the portfolio with a liquidity below 10.
C9_NoDustLeft ==
    \A n \in Names(portfolio) :
        Contains(n, "UniV3") => portfolio[n].liquidity >= 10

\* C9's case: a burn has left its position 5 of liquidity, and the position
\* has been cleared
C9_Witness ==
    /\ rec.event = "burn"
    /\ tag = "burn"
    /\ burn_left = <<5>>
    /\ NameOfBounds(rec.tick_lower, rec.tick_upper) \notin Names(portfolio)

\* C10: no concentrated position ever holds negative liquidity.  A burn of
\* the tracked address that requests more than its position holds burns the
\* position to exactly zero and reports the difference; one that requests no
\* more than the position holds reduces its liquidity by exactly the request.
C10_BurnClamped ==
    /\ [](/\ \A n \in UniNames(portfolio) : portfolio[n].liquidity >= 0
          /\ burn_left # None => burn_left[1] >= 0)
    /\ [][(/\ rec'.event = "burn"
           /\ rec'.owner = "A"
           /\ NameOfBounds(rec'.tick_lower, rec'.tick_upper) \in Names(portfolio)) =>
            LET name == NameOfBounds(rec'.tick_lower, rec'.tick_upper)
                held == portfolio[name].liquidity
                requested == rec'.liquidity
            IN  /\ raised' = ""
                /\ IF requested > held
                   THEN /\ burn_left' = <<0>>
                        /\ printed' = <<"Diff = " \o IntToStr(requested - held)>>
                   ELSE /\ burn_left' = <<held - requested>>
                        /\ held - requested >= 10 =>
                             /\ name \in Names(portfolio')
                             /\ portfolio'[name].liquidity = held - requested
       ]_vars

\* C10's case: a burn of 15 from a position that held 10 has been clamped
C10_Witness ==
    /\ rec.event = "burn"
    /\ rec.owner = "A"
    /\ rec.liquidity = 15
    /\ burn_left = <<0>>
    /\ printed = <<"Diff = 5">>

\* C11: the vault balances x and y are never negative.  A mint or swap of the
\* tracked address that asks the vault for more of a token than it holds
\* leaves the vault with exactly 1e-6 of that token (the balance topped up by
\* the shortfall plus 1e-6, less the withdrawal), and otherwise with its
\* balance less the withdrawal.
C11_VaultNeverNegative ==
    /\ []("Vault" \in Names(portfolio) =>
            portfolio["Vault"].x >= 0 /\ portfolio["Vault"].y >= 0)
    /\ [][(/\ rec'.owner = "A"
           /\ rec'.event \in {"mint", "swap"}
           /\ "Vault" \in Names(portfolio)) =>
            LET vault == portfolio["Vault"]
                after == portfolio'["Vault"]
                a0 == rec'.amount0
                a1 == rec'.amount1
                takesX == rec'.event = "mint" \/ a0 > 0
                takesY == rec'.event = "mint" \/ a0 <= 0
            IN  /\ raised' = ""
                /\ after.x = IF takesX
                             THEN (IF vault.x < a0 THEN Epsilon ELSE vault.x - a0)
                             ELSE vault.x - a0
                /\ after.y = IF takesY
                             THEN (IF vault.y < a1 THEN Epsilon ELSE vault.y - a1)
                             ELSE vault.y - a1
       ]_vars

\* C11's case: a swap of the tracked address has taken 2 of token x from a
\* vault that held 1
C11_Witness ==
    /\ rec.event = "swap"
    /\ rec.owner = "A"
    /\ rec.amount0 = 2
    /\ rec.timestamp = 2
    /\ "Vault" \in Names(portfolio)
    /\ portfolio["Vault"].x = Epsilon
    /\ portfolio["Vault"].y = 7

\* C12: a burn of the tracked address whose tick bounds are those of no
\* position in the portfolio is reported and does nothing else: every
\* position and the vault balances stay as they were, and the call returns
\* 'burn' without an exception.
C12_BurnOfNothingIsNoOp ==
    [][(/\ rec'.event = "burn"
        /\ rec'.owner = "A"
        /\ NameOfBounds(rec'.tick_lower, rec'.tick_upper) \notin Names(portfolio)) =>
         /\ portfolio' = portfolio
         /\ raised' = ""
         /\ tag' = "burn"
         /\ printed' = <<"There is no position to burn "
                           \o NameOfBounds(rec'.tick_lower, rec'.tick_upper)>>
    ]_vars

\* C12's case: the tracked address has burned at bounds it holds no position
\* at, while the portfolio holds the vault and a position at other bounds
C12_Witness ==
    /\ rec.event = "burn"
    /\ rec.owner = "A"
    /\ rec.tick_lower = -1
    /\ rec.tick_upper = 1
    /\ rec.liquidity = 5
    /\ printed = <<"There is no position to burn UniV3_-1_1">>
    /\ raised = ""
    /\ Names(portfolio) = {"Vault", "UniV3_-1_11"}

\* C13: on a portfolio with no position named 'Vault', a mint or swap of the
\* tracked address raises no exception and leaves the portfolio unchanged.
C13_MissingVaultIsNoOp ==
    [][(/\ rec'.owner = "A"
        /\ rec'.event \in {"mint", "swap"}
        /\ "Vault" \notin Names(portfolio)) =>
         /\ raised' = ""
         /\ portfolio' = portfolio
    ]_vars

\* C14: on every swap, whoever its owner is, charge_fees is called exactly
\* once on each concentrated position open in the portfolio, every such
\* position is still there and its fees have not gone down; on a mint or a
\* burn charge_fees is called on no position and every position that stays
\* keeps its fees.
C14_FeesOnEverySwap ==
    [][/\ rec'.event = "swap" =>
            /\ DOMAIN fee_calls' = UniNames(portfolio)
            /\ \A n \in UniNames(portfolio) :
                 /\ fee_calls'[n] = 1
                 /\ n \in Names(portfolio')
                 /\ portfolio'[n].fees_x >= portfolio[n].fees_x
                 /\ portfolio'[n].fees_y >= portfolio[n].fees_y
       /\ rec'.event \in {"mint", "burn"} =>
            /\ DOMAIN fee_calls' = {}
            /\ \A n \in UniNames(portfolio) \cap UniNames(portfolio') :
                 /\ portfolio'[n].fees_x = portfolio[n].fees_x
                 /\ portfolio'[n].fees_y = portfolio[n].fees_y
    ]_vars

\* C14's case: a swap of another address has charged both open positions,
\* and one of them has earned fees
C14_Witness ==
    /\ rec.event = "swap"
    /\ rec.owner = "B"
    /\ raised = ""
    /\ DOMAIN fee_calls = {"UniV3_-1_1", "UniV3_-1_11"}
    /\ UniNames(portfolio) = {"UniV3_-1_1", "UniV3_-1_11"}
    /\ portfolio["UniV3_-1_1"].fees_x = 1
    /\ portfolio["UniV3_-1_11"].fees_x = 0

(***************************************************************************)
(* Claims about Hold, checked under SpecHold                               *)
(***************************************************************************)
\* C18: interest_gain is called at most once per calendar date, and never
\* for a date before one it was called for: the dates it is called with are
\* strictly increasing.  It is not called on the first event; on a later
\* event it is called, once and with the event's date, exactly when that
\* date is strictly later than the date of the last accrual (of the first
\* event, if there was no accrual yet).
C18_InterestOncePerDate ==
    /\ [](\A i, j \in 1..Len(gain_dates) : i < j => gain_dates[i] < gain_dates[j])
    /\ [][LET date == rec'.timestamp \div SecondsPerDay
          IN  IF rec = NoRecord
              THEN gain_dates' = << >>
              ELSE IF date > prev_gain_date[1]
                   THEN gain_dates' = Append(gain_dates, date)
                   ELSE gain_dates' = gain_dates
       ]_vars

\* C18's case: interest was accrued on days 1 and 3, and the last event is a
\* later one of day 3
C18_Witness ==
    /\ gain_dates = <<1, 3>>
    /\ rec.timestamp = 3 * SecondsPerDay + 1
    /\ prev_gain_date = <<3>>
    /\ raised = ""

\* C19: from an empty portfolio, after the first event and after every later
\* one the portfolio holds exactly one position, the cash position 'Vault',
\* with the balances it was created with; no call raises, and every call
\* returns None.
C19_OnlyTheVault ==
    IF rec = NoRecord
    THEN Names(portfolio) = {}
    ELSE /\ Names(portfolio) = {"Vault"}
         /\ portfolio["Vault"].kind = "cash"
         /\ portfolio["Vault"].x = 1
         /\ portfolio["Vault"].y = 1
         /\ UniNames(portfolio) = {}
         /\ tag = "None"
         /\ raised = ""

\* C19's case: a mint event of a later day has reached the strategy after
\* the vault was created and interest accrued
C19_Witness ==
    /\ rec.event = "mint"
    /\ Date(rec.timestamp) = 2
    /\ gain_dates = <<2>>
    /\ Names(portfolio) = {"Vault"}
    /\ tag = "None"

(***************************************************************************)
(* Claims about Backtest, checked under SpecBacktest                       *)
(***************************************************************************)
\* the rows with a price, in the order of the data frame
WithPrice(rows) == SelectSeq(rows, LAMBDA row : row.price # None)

\* C15: a row with a null price brings no call of rebalance and no entry in
\* any log; every other row brings exactly one entry, with the row's
\* timestamp, in each of the three logs.  So the three logs always have the
\* length of the priced rows taken so far, and their i-th entries carry the
\* timestamp of the i-th such row.
C15_LogsParallel ==
    /\ [](LET taken == WithPrice(SubSeq(df, 1, index))
          IN  /\ Len(portfolio_history) = Len(taken)
              /\ Len(rebalance_history) = Len(taken)
              /\ Len(uni_history) = Len(taken)
              /\ \A i \in 1..Len(taken) :
                   /\ portfolio_history[i].timestamp = taken[i].timestamp
                   /\ rebalance_history[i][1] = taken[i].timestamp
                   /\ uni_history[i][1] = taken[i].timestamp)
    /\ [][IF df[index + 1].price = << >>
          THEN /\ calls' = calls
               /\ UNCHANGED <<portfolio_history, rebalance_history, uni_history>>
          ELSE /\ Len(portfolio_history') = Len(portfolio_history) + 1
               /\ Len(rebalance_history') = Len(rebalance_history) + 1
               /\ Len(uni_history') = Len(uni_history) + 1
       ]_vars

\* C16: rebalance is called exactly once for each priced row, in the order
\* of the rows, and each call is followed, before the next call, by the
\* snapshot and the tag logged for its row: the logs have one entry per call,
\* and when the replay is over every priced row has had its call.
C16_OneCallPerRow ==
    /\ Len(rebalance_history) = Len(calls)
    /\ Len(portfolio_history) = Len(calls)
    /\ \A i \in 1..Len(calls) : rebalance_history[i][1] = calls[i].timestamp
    /\ calls = WithPrice(SubSeq(df, 1, index))
    /\ (index = Len(df) \/ raised # "") => calls = WithPrice(df)

\* C17: no call of rebalance by Backtest.backtest ends with the exception of
\* a keyword argument that the strategy reads and the call did not pass.
C17_NoMissingArgument ==
    raised # "KeyError"

(***************************************************************************)
(* More claims about StrategyCatchThePrice, checked under SpecCatch        *)
(***************************************************************************)
\* C21: a swap that reaches the strategy on an empty portfolio leaves the
\* portfolio with the cash position 'main_vault' and the concentrated
\* position 'UniV3_1', whose bounds are price - width, but no less than the
\* least tick price, and price + width, but no more than the greatest tick
\* price, and whose fees are 0; last_mint_price is the price,
\* last_timestamp_in_interval the timestamp, the re-mint counter stays 0 and
\* the call returns 'init'.
C21_FirstSwapInitialises ==
    [][(rec'.event = "swap" /\ Names(portfolio) = {}) =>
         LET price == rec'.price
             lower == IF price - width < MinTickPrice THEN MinTickPrice ELSE price - width
             upper == IF price + width > MaxTickPrice THEN MaxTickPrice ELSE price + width
         IN  /\ tag' = "init"
             /\ raised' = ""
             /\ Names(portfolio') = {"main_vault", "UniV3_1"}
             /\ portfolio'["main_vault"].kind = "cash"
             /\ portfolio'["UniV3_1"].kind = "uni"
             /\ portfolio'["UniV3_1"].lower_price = lower
             /\ portfolio'["UniV3_1"].upper_price = upper
             /\ portfolio'["UniV3_1"].fees_x = 0
             /\ portfolio'["UniV3_1"].fees_y = 0
             /\ last_mint_price' = <<price>>
             /\ last_timestamp_in_interval' = <<rec'.timestamp>>
             /\ pos_num' = <<1>>
             /\ w' = 0
             /\ nRebalanceTags' = 0
    ]_vars

\* C21's case: the first swap came at price 1, after an event that was no
\* swap, and the lower bound of 'UniV3_1' was raised from -1 to the least
\* tick price
C21_Witness ==
    /\ tag = "init"
    /\ rec.event = "swap"
    /\ rec.price = 1
    /\ rec.timestamp >= 2
    /\ width = 2
    /\ "UniV3_1" \in Names(portfolio)
    /\ portfolio["UniV3_1"].lower_price = MinTickPrice
    /\ portfolio["UniV3_1"].upper_price = 3
    /\ last_mint_price = <<1>>

\* C22: once the strategy is initialised, after every call the portfolio
\* holds exactly 'main_vault' and one concentrated position, whose name is
\* 'UniV3_' followed by pos_num; pos_num is the number of re-mints plus 1,
\* so between 1 and 6; and no call has failed to find its position.
C22_OneOpenPosition ==
    Initialised =>
        /\ Names(portfolio) = {"main_vault", "UniV3_" \o IntToStr(pos_num[1])}
        /\ portfolio["main_vault"].kind = "cash"
        /\ UniNames(portfolio) = {"UniV3_" \o IntToStr(pos_num[1])}
        /\ pos_num[1] = w + 1
        /\ pos_num[1] = nRebalanceTags + 1
        /\ pos_num[1] >= 1
        /\ pos_num[1] <= 6
        /\ raised = ""

\* C22's case: after the third re-mint the portfolio holds the vault and
\* 'UniV3_4' only, and a later swap has found that position
C22_Witness ==
    /\ pos_num = <<4>>
    /\ w = 3
    /\ Names(portfolio) = {"main_vault", "UniV3_4"}
    /\ rec.event = "swap"
    /\ tag = "None"
    /\ raised = ""

(***************************************************************************)
(* More claims about Backtest, checked under SpecBacktest                  *)
(***************************************************************************)
\* C23: the entry appended to the position history for a row holds the names
\* of the positions that the portfolio holds at that moment, and the names
\* held by an entry already in the history are the same after any later pass
\* of the loop, whatever that pass adds to or removes from the portfolio.
C23_HistoryEntriesAreCopies ==
    [][LET before == Len(uni_history)
           after == Len(uni_history')
       IN  /\ after >= before
           /\ \A i \in 1..before :
                /\ uni_history'[i][1] = uni_history[i][1]
                /\ (IF uni_history'[i][2].same_dict
                    THEN DOMAIN portfolio'
                    ELSE uni_history'[i][2].names)
                   = (IF uni_history[i][2].same_dict
                      THEN DOMAIN portfolio
                      ELSE uni_history[i][2].names)
           /\ after > before =>
                /\ after = before + 1
                /\ (IF uni_history'[after][2].same_dict
                    THEN DOMAIN portfolio'
                    ELSE uni_history'[after][2].names) = DOMAIN portfolio'
    ]_vars

\* C23's case: after the entry of the first row, which holds 'UniV3_1', later
\* calls have removed that position and added 'UniV3_2'
C23_Witness ==
    /\ Len(uni_history) = 3
    /\ ~uni_history[1][2].same_dict
    /\ uni_history[1][2].names = {"UniV3_1"}
    /\ uni_history[2][2].names = {}
    /\ uni_history[3][2].names = {"UniV3_2"}
    /\ Names(portfolio) = {"UniV3_2"}
    /\ raised = ""

====
